---- MODULE Spec2Model ----
(***************************************************************************)
(* Model of the aiwebchat serverless chat proxy (functions/api/chat.js and *)
(* its revisions): the request handler, the provider request builder, the  *)
(* upstream dispatch and the Gemini stream normalizer.                     *)
(*                                                                         *)
(* Byte streams are sequences of one-character strings.  Three kinds of    *)
(* longer tokens stand for fixed runs of bytes that the code never looks   *)
(* inside: the opening and closing text of a JSON document around its text *)
(* value (GemOpen/GemClose, CanonOpen/CanonClose), whole JSON documents    *)
(* without a text value ("{}", "null") and the sentinel "[DONE]".          *)
(***************************************************************************)
EXTENDS Integers, Sequences, FiniteSets, TLC

\* ------------------------------------------------------------------ bounds
\* Number of segments an upstream Gemini body is made of (normalizer runs).
MaxFrags == 3

\* ------------------------------------------------------------- characters
NL == "\n"
\* the 'data: ' marker tested by line.startsWith('data: ')
Marker == <<"d", "a", "t", "a", ":", " ">>
\* length of the marker, the argument of line.substring(6)
MarkerLen == 6
\* {"candidates":[{"content":{"parts":[{"text":"  ...  "}]}}]}
GemOpen == "{\"candidates\":[{\"content\":{\"parts\":[{\"text\":\""
GemClose == "\"}]}}]}"
\* {"choices":[{"delta":{"content":"  ...  "},"index":0,"finish_reason":null}]}
CanonOpen == "{\"choices\":[{\"delta\":{\"content\":\""
CanonClose == "\"},\"index\":0,\"finish_reason\":null}]}"
\* UTF-8: the two bytes of one two-byte character and the character itself
LeadByte == "xC3"
ContByte == "xA9"
TwoByteChar == "e'"
\* characters a text value is made of (none needs a JSON escape)
TextChars == {"H", "i", TwoByteChar}

RECURSIVE Flatten(_)
Flatten(ss) == IF ss = <<>> THEN <<>> ELSE Head(ss) \o Flatten(Tail(ss))

StartsWith(s, p) == Len(s) >= Len(p) /\ SubSeq(s, 1, Len(p)) = p

Substring(s, from) == SubSeq(s, from + 1, Len(s))

\* ------------------------------------------------------------ TextDecoder
\* decoder.decode(chunk, {stream: true}): bytes become characters; the lead
\* byte of a character whose continuation has not arrived yet is held back.
RECURSIVE DecodeBytes(_)
DecodeBytes(bs) ==
    IF bs = <<>> THEN [chars |-> <<>>, pending |-> <<>>]
    ELSE IF Head(bs) = LeadByte
         THEN IF Len(bs) = 1 THEN [chars |-> <<>>, pending |-> bs]
              ELSE IF bs[2] = ContByte
                   THEN LET r == DecodeBytes(SubSeq(bs, 3, Len(bs)))
                        IN  [chars |-> <<TwoByteChar>> \o r.chars, pending |-> r.pending]
                   ELSE LET r == DecodeBytes(Tail(bs))
                        IN  [chars |-> <<"U+FFFD">> \o r.chars, pending |-> r.pending]
         ELSE IF Head(bs) = ContByte
              THEN LET r == DecodeBytes(Tail(bs))
                   IN  [chars |-> <<"U+FFFD">> \o r.chars, pending |-> r.pending]
              ELSE LET r == DecodeBytes(Tail(bs))
                   IN  [chars |-> <<Head(bs)>> \o r.chars, pending |-> r.pending]

Decode(pending, chunk) == DecodeBytes(pending \o chunk)

\* the UTF-8 bytes of a character sequence (the Response body encoder)
RECURSIVE EncodeChars(_)
EncodeChars(cs) ==
    IF cs = <<>> THEN <<>>
    ELSE (IF Head(cs) = TwoByteChar THEN <<LeadByte, ContByte>> ELSE <<Head(cs)>>)
         \o EncodeChars(Tail(cs))

\* ------------------------------------------------------------------ split
\* String.prototype.split('\n\n'): at least one element, boundaries taken
\* greedily from the left.
RECURSIVE Split(_)
Split(s) ==
    LET hits == {i \in 1..(Len(s) - 1) : s[i] = NL /\ s[i + 1] = NL}
    IN  IF hits = {} THEN <<s>>
        ELSE LET i == CHOOSE h \in hits : \A g \in hits : h <= g
             IN  <<SubSeq(s, 1, i - 1)>> \o Split(SubSeq(s, i + 2, Len(s)))

\* ------------------------------------------------------------------- JSON
IsText(s) == \A i \in 1..Len(s) : s[i] \in TextChars

\* JSON.parse(rawJson) followed by
\* geminiChunk.candidates?.[0]?.content?.parts?.[0]?.text || '' :
\* threw is TRUE when either throws (a syntax error, or a property read on the
\* parsed value null).
GeminiChunkText(rawJson) ==
    IF Len(rawJson) >= 2 /\ rawJson[1] = GemOpen /\ rawJson[Len(rawJson)] = GemClose
       /\ IsText(SubSeq(rawJson, 2, Len(rawJson) - 1))
    THEN [threw |-> FALSE, text |-> SubSeq(rawJson, 2, Len(rawJson) - 1)]
    ELSE IF Len(rawJson) >= 2 /\ rawJson[1] = CanonOpen /\ rawJson[Len(rawJson)] = CanonClose
            /\ IsText(SubSeq(rawJson, 2, Len(rawJson) - 1))
    THEN [threw |-> FALSE, text |-> <<>>]
    ELSE IF rawJson = <<"{}">>
    THEN [threw |-> FALSE, text |-> <<>>]
    ELSE [threw |-> TRUE, text |-> <<>>]

\* the frame with the payload left in Gemini's own shape
SseFrameGeminiShape(textContent) ==
    Marker \o <<GemOpen>> \o textContent \o <<GemClose>> \o <<NL, NL>>

\* `data: ${JSON.stringify(ssePayload)}\n\n`
SseFrame(textContent) == Marker \o <<CanonOpen>> \o textContent \o <<CanonClose>> \o <<NL, NL>>

DoneFrame == Marker \o <<"[DONE]">> \o <<NL, NL>>

\* ------------------------------------------------------------- normalizer
\* the body of the for loop for one line: the frames it enqueues
LineFrames(line) ==
    IF StartsWith(line, Marker)
    THEN LET c == GeminiChunkText(Substring(line, MarkerLen))
         IN  IF ~c.threw /\ c.text # <<>> THEN <<SseFrame(c.text)>> ELSE <<>>
    ELSE <<>>

\* the for loop with the later lines' frames enqueued first
RECURSIVE LinesFramesReversed(_)
LinesFramesReversed(lines) ==
    IF lines = <<>> THEN <<>>
    ELSE LinesFramesReversed(Tail(lines)) \o LineFrames(Head(lines))

\* the for loop left at the first line whose JSON does not parse
RECURSIVE LinesFramesAbort(_)
LinesFramesAbort(lines) ==
    IF lines = <<>> THEN <<>>
    ELSE IF /\ StartsWith(Head(lines), Marker)
            /\ GeminiChunkText(Substring(Head(lines), MarkerLen)).threw
    THEN <<>>
    ELSE LineFrames(Head(lines)) \o LinesFramesAbort(Tail(lines))

RECURSIVE LinesFrames(_)
LinesFrames(lines) ==
    IF lines = <<>> THEN <<>> ELSE LineFrames(Head(lines)) \o LinesFrames(Tail(lines))

\* transform(chunk, controller) with the buffer reset instead of kept
TransformDropsBuffer(buf, pend, chunk) ==
    LET d == Decode(pend, chunk)
        lines == Split(buf \o d.chars)
    IN  [buffer |-> <<>>,
         pending |-> d.pending,
         frames |-> LinesFrames(SubSeq(lines, 1, Len(lines) - 1))]

\* transform(chunk, controller) with nothing taken out of the buffer
TransformKeepsAll(buf, pend, chunk) ==
    LET d == Decode(pend, chunk)
        lines == Split(buf \o d.chars)
    IN  [buffer |-> buf \o d.chars,
         pending |-> d.pending,
         frames |-> LinesFrames(SubSeq(lines, 1, Len(lines) - 1))]

\* transform(chunk, controller): the new buffer, the decoder's held bytes and
\* the frames enqueued
Transform(buf, pend, chunk) ==
    LET d == Decode(pend, chunk)
        lines == Split(buf \o d.chars)
    IN  [buffer |-> lines[Len(lines)],
         pending |-> d.pending,
         frames |-> LinesFrames(SubSeq(lines, 1, Len(lines) - 1))]

\* flush(controller)
Flush == <<DoneFrame>>

\* ------------------------------------------------------- upstream streams
GemSegment(text) == Marker \o <<GemOpen>> \o EncodeChars(text) \o <<GemClose>>

\* the segments a Gemini body is made of: valid fragments (one of them with a
\* two-byte character, one with an empty text), a fragment cut short, a line
\* without the marker, a stray newline and a fragment without its boundary
Segments ==
    { GemSegment(<<"H", "i">>) \o <<NL, NL>>,
      GemSegment(<<TwoByteChar>>) \o <<NL, NL>>,
      GemSegment(<<>>) \o <<NL, NL>>,
      Marker \o <<GemOpen, "H">> \o <<NL, NL>>,
      <<":", "k">> \o <<NL, NL>>,
      <<NL>>,
      GemSegment(<<"i">>) }

RECURSIVE StreamsOf(_)
StreamsOf(n) ==
    IF n = 0 THEN {<<>>}
    ELSE LET shorter == StreamsOf(n - 1)
         IN  shorter \cup {s \o g : s \in shorter, g \in Segments}

\* ------------------------------------------------------------- JS values
\* A JavaScript value is a record tagged with its type.  Strings are sequences
\* of characters or of longer tokens.
Undef == [t |-> "undefined"]
Null == [t |-> "null"]
\* a non-zero number
Num == [t |-> "number"]
Str(s) == [t |-> "string", s |-> s]
Bool(b) == [t |-> "boolean", b |-> b]
Arr(a) == [t |-> "array", a |-> a]

\* ToBoolean
Truthy(v) ==
    CASE v.t = "undefined" -> FALSE
      [] v.t = "null" -> FALSE
      [] v.t = "boolean" -> v.b
      [] v.t = "string" -> v.s # <<>>
      [] OTHER -> TRUE

\* a message object {role, content}; parts is set by the attachment splice
Msg(role, text) == [t |-> "object", role |-> role, content |-> Str(text), parts |-> Undef]

\* ----------------------------------------------------------- model names
P_gemini == <<"g", "e", "m", "i", "n", "i">>
P_deepseek == <<"d", "e", "e", "p", "s", "e", "e", "k">>
P_gpt == <<"g", "p", "t", "-">>
P_qwen == <<"q", "w", "e", "n">>
P_ollama == <<"o", "l", "l", "a", "m", "a", "-">>
N_chatgpt == <<"c", "h", "a", "t", "g", "p", "t">>

PROVIDERS == [OLLAMA |-> "ollama", GEMINI |-> "gemini"]

\* ------------------------------------------------------------- attachment
\* imageBase64.match(/^data:(image\/.+);base64,(.+)$/) on a string whose
\* characters are single characters and the tokens "data:" and ";base64,".
\* Group 1 is greedy: it runs to the last ";base64," that leaves a character
\* for group 2.
ImagePrefix == <<"i", "m", "a", "g", "e", "/">>

ImageMatch(s) ==
    LET cuts == {i \in 1..Len(s) : /\ s[i] = ";base64,"
                                   /\ i > 1 + Len(ImagePrefix) + 1
                                   /\ i < Len(s)}
    IN  IF /\ Len(s) >= 1
           /\ s[1] = "data:"
           /\ StartsWith(Tail(s), ImagePrefix)
           /\ cuts # {}
        THEN LET i == CHOOSE c \in cuts : \A d \in cuts : d <= c
             IN  [matched |-> TRUE,
                  mimeType |-> SubSeq(s, 2, i - 1),
                  data |-> SubSeq(s, i + 1, Len(s))]
        ELSE [matched |-> FALSE, mimeType |-> <<>>, data |-> <<>>]

\* -------------------------------------------------------------- responses
JsonType == "application/json"
SseType == "text/event-stream"
\* the Content-Type a Response built from a string gets when none is given
PlainType == "text/plain;charset=UTF-8"

\* new Response(JSON.stringify({error: ...}), {status, headers}); quoted is
\* how many characters of the upstream response body the envelope holds
ErrorResponse(status, ctype, message) ==
    [kind |-> "json", status |-> status, ctype |-> ctype,
     body |-> [t |-> "error", error |-> message, quoted |-> 0]]

\* an error envelope one of whose fields holds n characters of the upstream body
Quoting(r, n) == [r EXCEPT !.body.quoted = n]

\* new Response(JSON.stringify({reply: ...}), {status: 200, headers})
ReplyResponse(reply) ==
    [kind |-> "json", status |-> 200, ctype |-> JsonType,
     body |-> [t |-> "reply", reply |-> reply]]

\* the handler's promise rejects: nothing is returned to the runtime
Escaped == [kind |-> "exception", status |-> 0, ctype |-> "none",
            body |-> [t |-> "none"]]

NoResponse == [kind |-> "none", status |-> 0, ctype |-> "none", body |-> [t |-> "none"]]

\* ------------------------------------------- handleChatRequest: attachment
IsNullish(v) == v.t \in {"undefined", "null"}

\* `${value}` for a string or undefined
Interpolate(v) == IF v.t = "string" THEN v.s ELSE <<v.t>>

\* The multimodal block.  rev "v1" is functions/api/chat.js, rev "v2" is the
\* revision with buildApiConfig, which also deletes lastMessage.content.  The
\* message objects are the caller's own (v2 copies only the array).
Splice(rev, model, messages, image) ==
    LET n == Len(messages.a)
        lastMessage == messages.a[n]
        same == [threw |-> FALSE, messages |-> messages]
        thrown == [threw |-> TRUE, messages |-> messages]
    IN  IF ~(Truthy(image) /\ n > 0) THEN same
        ELSE IF IsNullish(lastMessage) THEN thrown
        ELSE IF lastMessage.role # "user" THEN same
        ELSE IF image.t # "string" THEN thrown
        ELSE LET match == ImageMatch(image.s)
             IN  IF ~match.matched THEN same
                 ELSE IF model.t # "string" THEN thrown
                 ELSE IF StartsWith(model.s, P_gemini)
                 THEN LET parts == Arr(<<[text |-> lastMessage.content],
                                         [inline_data |-> [mime_type |-> match.mimeType,
                                                           data |-> match.data]]>>)
                          m2 == [lastMessage EXCEPT
                                   !.parts = parts,
                                   !.content = IF rev = "v2" THEN Undef ELSE @]
                      IN  [threw |-> FALSE,
                           messages |-> Arr([messages.a EXCEPT ![n] = m2])]
                 ELSE LET content == Arr(<<[type |-> "text", text |-> lastMessage.content],
                                           [type |-> "image_url",
                                            image_url |-> [url |-> image]]>>)
                          m2 == [lastMessage EXCEPT !.content = content]
                      IN  [threw |-> FALSE,
                           messages |-> Arr([messages.a EXCEPT ![n] = m2])]

\* ---------------------------------------------- handleChatRequest: routing
\* messages.map(msg => ...) of the Gemini branch; reading msg.parts of a null
\* element throws
GeminiMessages(messages) ==
    IF \E i \in 1..Len(messages.a) : IsNullish(messages.a[i])
    THEN [threw |-> TRUE, contents |-> <<>>]
    ELSE [threw |-> FALSE,
          contents |->
            [i \in 1..Len(messages.a) |->
               LET msg == messages.a[i]
               IN  [role |-> IF msg.role = "user" THEN "user" ELSE "model",
                    parts |-> IF Truthy(msg.parts) THEN msg.parts.a
                              ELSE <<[text |-> msg.content]>>]]]

GeminiBase == "https://generativelanguage.googleapis.com/v1beta/models/"

GeminiEndpoint(model, stream) ==
    IF Truthy(stream)
    THEN <<GeminiBase>> \o model.s \o <<":streamGenerateContent", "?", "alt=sse">>
    ELSE <<GeminiBase>> \o model.s \o <<":generateContent">>

IsOllamaModel(model) ==
    \/ StartsWith(model.s, P_deepseek)
    \/ StartsWith(model.s, P_gpt)
    \/ StartsWith(model.s, P_qwen)
    \/ StartsWith(model.s, P_ollama)

\* model.startsWith('ollama-') ? model.substring('ollama-'.length) : model
OllamaModelName(model) ==
    IF StartsWith(model.s, P_ollama) THEN Substring(model.s, Len(P_ollama)) ELSE model.s

GeminiConfig(model, contents, stream, env) ==
    [provider |-> PROVIDERS.GEMINI,
     endpoint |-> GeminiEndpoint(model, stream),
     apiKey |-> env.GEMINI_API_KEY,
     modelName |-> model.s,
     body |-> [contents |-> contents]]

OllamaConfig(model, messages, stream, env) ==
    [provider |-> PROVIDERS.OLLAMA,
     endpoint |-> Interpolate(env.OLLAMA_API_BASE_URL) \o <<"/v1/chat/completions">>,
     apiKey |-> Null,
     modelName |-> OllamaModelName(model),
     body |-> [model |-> OllamaModelName(model),
               messages |-> messages.a,
               stream |-> IF stream.t # "undefined" THEN stream ELSE Bool(TRUE)]]

UnsupportedModel == "Unsupported model"

\* functions/api/chat.js: the if / else if / else that fills apiConfig
RouteV1(model, messages, stream, env) ==
    IF model.t # "string" THEN [kind |-> "throw"]
    ELSE IF StartsWith(model.s, P_gemini)
    THEN LET g == GeminiMessages(messages)
         IN  IF g.threw THEN [kind |-> "throw"]
             ELSE [kind |-> "config", cfg |-> GeminiConfig(model, g.contents, stream, env)]
    ELSE IF IsOllamaModel(model)
    THEN [kind |-> "config", cfg |-> OllamaConfig(model, messages, stream, env)]
    ELSE [kind |-> "respond",
          resp |-> ErrorResponse(400, JsonType, UnsupportedModel)]

\* buildApiConfig of the later revision: kind "throw" is any exception, which
\* its caller catches
BuildApiConfig(model, messages, stream, env) ==
    IF model.t # "string" THEN [kind |-> "throw", message |-> "TypeError"]
    ELSE IF StartsWith(model.s, P_gemini)
    THEN IF ~Truthy(env.GEMINI_API_KEY)
         THEN [kind |-> "throw", message |-> "GEMINI_API_KEY is not set"]
         ELSE LET g == GeminiMessages(messages)
              IN  IF g.threw THEN [kind |-> "throw", message |-> "TypeError"]
                  ELSE [kind |-> "config",
                        cfg |-> GeminiConfig(model, g.contents, stream, env)]
    ELSE IF IsOllamaModel(model)
    THEN IF ~Truthy(env.OLLAMA_API_BASE_URL)
         THEN [kind |-> "throw", message |-> "OLLAMA_API_BASE_URL is not set"]
         ELSE [kind |-> "config", cfg |-> OllamaConfig(model, messages, stream, env)]
    ELSE [kind |-> "throw", message |-> UnsupportedModel]

\* fetchOptions and finalEndpoint: what fetch() is called with
Descriptor(apiConfig) ==
    LET auth == IF Truthy(apiConfig.apiKey) /\ apiConfig.provider # PROVIDERS.GEMINI
                THEN {<<"Authorization", <<"Bearer ">> \o apiConfig.apiKey.s>>}
                ELSE {}
    IN  [url |-> IF apiConfig.provider = PROVIDERS.GEMINI
                 THEN apiConfig.endpoint \o <<"&", "key=">> \o Interpolate(apiConfig.apiKey)
                 ELSE apiConfig.endpoint,
         method |-> "POST",
         headers |-> {<<"Content-Type", <<JsonType>>>>} \cup auth,
         body |-> apiConfig.body]

\* --------------------------------------------- handleChatRequest: request
\* The synchronous run of handleChatRequest from the result of
\* request.json() to the call of fetch(): kind "respond" returns resp (Escaped
\* when an exception leaves the function), kind "fetch" calls fetch(desc).
\* parsed.kind is "unparseable" (request.json() rejects), "null" (the body is
\* the JSON text null) or "object".
PrepareChat(rev, parsed, env) ==
    LET bad(msg) == [kind |-> "respond", resp |-> ErrorResponse(400, JsonType, msg),
                     messages |-> parsed.messages]
        escaped == [kind |-> "respond", resp |-> Escaped, messages |-> parsed.messages]
    IN  IF parsed.kind = "unparseable" THEN bad("Invalid JSON in request body")
        ELSE IF parsed.kind = "null" THEN escaped
        ELSE IF ~Truthy(parsed.model) THEN bad("Missing model")
        ELSE IF \/ ~Truthy(parsed.messages)
                \/ parsed.messages.t # "array"
                \/ Len(parsed.messages.a) = 0
        THEN bad("Missing or empty messages")
        ELSE LET sp == Splice(rev, parsed.model, parsed.messages, parsed.image)
                 route == IF rev = "v1"
                          THEN RouteV1(parsed.model, sp.messages, parsed.stream, env)
                          ELSE BuildApiConfig(parsed.model, sp.messages, parsed.stream, env)
             IN  IF sp.threw THEN [escaped EXCEPT !.messages = sp.messages]
                 ELSE IF route.kind = "throw"
                 THEN IF rev = "v1"
                      THEN [escaped EXCEPT !.messages = sp.messages]
                      ELSE [kind |-> "respond",
                            resp |-> ErrorResponse(400, JsonType, route.message),
                            messages |-> sp.messages]
                 ELSE IF route.kind = "respond"
                 THEN [kind |-> "respond", resp |-> route.resp, messages |-> sp.messages]
                 ELSE [kind |-> "fetch",
                       provider |-> route.cfg.provider,
                       desc |-> Descriptor(route.cfg),
                       messages |-> sp.messages]

\* ---------------------------------------------------------- onRequestPost
N_gemini == P_gemini
N_deepseek == P_deepseek
N_qwen == P_qwen

\* parseBase64(base64String)
ParseBase64(image) ==
    LET match == ImageMatch(image.s)
    IN  IF ~match.matched THEN [mimeType |-> Null, data |-> Null]
        ELSE [mimeType |-> Str(match.mimeType), data |-> Str(match.data)]

\* typeof content === 'string' ? content : JSON.stringify(content)
ContentText(content) ==
    IF content.t = "string" THEN content ELSE Str(<<"JSON.stringify(content)">>)

SystemMessage == [role |-> "system", content |-> Str(<<"system prompt">>)]

\* case 'chatgpt' / case 'deepseek' with the history loop left out
OpenAIMessagesNoHistory(messages, img, image) ==
    IF Len(messages.a) = 0 THEN <<SystemMessage>>
    ELSE <<SystemMessage,
           [role |-> "user", content |-> ContentText(messages.a[Len(messages.a)].content)]>>

\* case 'chatgpt' / case 'deepseek': finalMessages
OpenAIMessages(messages, img, image) ==
    LET n == Len(messages.a)
        history == [i \in 1..(IF n = 0 THEN 0 ELSE n - 1) |->
                      [role |-> messages.a[i].role,
                       content |-> ContentText(messages.a[i].content)]]
        current == IF n = 0 THEN Undef ELSE messages.a[n]
        last == IF ~Truthy(current) THEN <<>>
                ELSE IF Truthy(img.data) /\ Truthy(image)
                THEN <<[role |-> "user",
                        content |-> Arr(<<[type |-> "text",
                                           text |-> IF current.content.t = "string"
                                                    THEN current.content ELSE Str(<<>>)],
                                          [type |-> "image_url",
                                           image_url |->
                                             [url |-> Str(<<"data:">> \o img.mimeType.s
                                                          \o <<";base64,">> \o img.data.s)]]>>)]>>
                ELSE <<[role |-> "user", content |-> ContentText(current.content)]>>
    IN  <<SystemMessage>> \o history \o last

\* the index of the last element of contents whose role is 'user', 0 if none
LastUserIndex(contents) ==
    LET us == {i \in 1..Len(contents) : contents[i].role = "user"}
    IN  IF us = {} THEN 0 ELSE CHOOSE i \in us : \A j \in us : j <= i

\* case 'gemini': geminiContents
GeminiContents(messages, img) ==
    LET base == [i \in 1..Len(messages.a) |->
                   [role |-> IF messages.a[i].role = "assistant" THEN "model" ELSE "user",
                    parts |-> <<[text |-> messages.a[i].content]>>]]
        u == LastUserIndex(base)
    IN  IF Truthy(img.data) /\ u > 0
        THEN [base EXCEPT ![u].parts =
                @ \o <<[inline_data |-> [mime_type |-> img.mimeType.s, data |-> img.data.s]]>>]
        ELSE base

\* case 'qwen': qwenMessages
QwenMessages(messages, img, image, lastUserMessage) ==
    [i \in 1..Len(messages.a) |->
       LET msg == messages.a[i]
       IN  IF Truthy(img.data) /\ msg.role = "user" /\ msg.content = lastUserMessage
           THEN [role |-> msg.role,
                 content |-> Arr(<<[image |-> image], [text |-> msg.content]>>)]
           ELSE IF Truthy(img.data) /\ msg.role = "user"
           THEN [role |-> msg.role,
                 content |-> Arr(<<[image |-> Str(<<"data:">> \o img.mimeType.s
                                                \o <<";base64,">> \o img.data.s)],
                                   [text |-> msg.content]>>)]
           ELSE [role |-> msg.role, content |-> msg.content]]

BearerHeaders(key) ==
    {<<"Content-Type", <<JsonType>>>>, <<"Authorization", <<"Bearer ">> \o key.s>>}

\* case 'deepseek' of the onRequestPost in script.js: finalMessagesDeepseek.
\* The forEach pushes every message, then the last one is pushed once more
\* with role 'user'.
ScriptDeepseekMessages(messages) ==
    LET n == Len(messages.a)
        all == [i \in 1..n |->
                  [role |-> messages.a[i].role,
                   content |-> ContentText(messages.a[i].content)]]
        current == IF n = 0 THEN Undef ELSE messages.a[n]
        last == IF ~Truthy(current) THEN <<>>
                ELSE <<[role |-> "user", content |-> ContentText(current.content)]>>
    IN  <<SystemMessage>> \o all \o last

\* case 'qwen' of the onRequestPost in script.js: qwenMessages
ScriptQwenMessages(messages, img, lastUserMessage) ==
    [i \in 1..Len(messages.a) |->
       LET msg == messages.a[i]
       IN  IF Truthy(img.data) /\ msg.role = "user" /\ msg.content = lastUserMessage
           THEN [role |-> msg.role,
                 content |-> Arr(<<[image |-> Str(<<"data:">> \o img.mimeType.s
                                                \o <<";base64,">> \o img.data.s)],
                                   [text |-> msg.content]>>)]
           ELSE [role |-> msg.role, content |-> msg.content]]

\* the headers of the OpenRouter call in script.js
OpenRouterHeaders(key) ==
    BearerHeaders(key) \cup {<<"HTTP-Referer", <<"https://example.com">>>>,
                             <<"X-Title", <<"My AI Chat App">>>>}

\* The synchronous run of onRequestPost from the result of request.json() to
\* the call of fetch(), in functions/api/chat.js (revision "v3") and in
\* script.js (revision "v4").  Everything runs inside the try: an exception
\* ends in the catch, which answers 500.
PrepareOnRequestPost(revision, parsed, env) ==
    LET caught(msg) == [kind |-> "respond", resp |-> ErrorResponse(500, PlainType, msg),
                        messages |-> parsed.messages]
        model == parsed.model
        messages == parsed.messages
        image == parsed.image
    IN  IF parsed.kind = "unparseable" THEN caught("SyntaxError")
        ELSE IF parsed.kind = "null" THEN caught("TypeError")
        ELSE IF Truthy(image) /\ image.t # "string" THEN caught("TypeError")
        ELSE IF messages.t # "array" THEN caught("TypeError")
        ELSE IF \E i \in 1..Len(messages.a) : IsNullish(messages.a[i])
        THEN caught("TypeError")
        ELSE
        LET img == IF Truthy(image) THEN ParseBase64(image)
                   ELSE [mimeType |-> Null, data |-> Null]
            users == SelectSeq(messages.a, LAMBDA m : m.role = "user")
            lastUserMessage ==
                IF users # <<>> /\ Truthy(users[Len(users)].content)
                THEN users[Len(users)].content ELSE Str(<<>>)
            call(provider, url, headers, body) ==
                [kind |-> "fetch", provider |-> provider,
                 desc |-> [url |-> url, method |-> "POST", headers |-> headers,
                           body |-> body],
                 messages |-> messages]
        IN  IF model = Str(N_gemini)
            THEN IF ~Truthy(env.GEMINI_API_KEY) THEN caught("GEMINI_API_KEY is not set")
                 ELSE call("gemini",
                           <<GeminiBase, "gemini-2.5-flash", ":generateContent", "?", "key=">>
                             \o env.GEMINI_API_KEY.s,
                           {<<"Content-Type", <<JsonType>>>>},
                           [contents |-> GeminiContents(messages, img)])
            ELSE IF model = Str(N_chatgpt)
            THEN IF ~Truthy(env.OPENAI_API_KEY) THEN caught("OPENAI_API_KEY is not set")
                 ELSE call("chatgpt",
                           <<"https://api.chatanywhere.tech", "/v1/chat/completions">>,
                           BearerHeaders(env.OPENAI_API_KEY),
                           [model |-> <<"gpt-4o">>,
                            messages |-> OpenAIMessages(messages, img, image),
                            stream |-> Bool(TRUE)])
            ELSE IF model = Str(N_deepseek) /\ revision = "v4"
            THEN IF ~Truthy(env.OPENROUTER_API_KEY)
                 THEN caught("OPENROUTER_API_KEY is not set")
                 ELSE call("deepseek",
                           <<"https://openrouter.ai", "/api/v1/chat/completions">>,
                           OpenRouterHeaders(env.OPENROUTER_API_KEY),
                           [model |-> <<"deepseek/deepseek-chat-v3.1:free">>,
                            messages |-> ScriptDeepseekMessages(messages),
                            stream |-> Bool(TRUE)])
            ELSE IF model = Str(N_deepseek)
            THEN IF ~Truthy(env.DEEPSEEK_API_KEY) THEN caught("DEEPSEEK_API_KEY is not set")
                 ELSE call("deepseek",
                           <<"https://openrouter.ai/api/v1", "/v1/chat/completions">>,
                           BearerHeaders(env.DEEPSEEK_API_KEY),
                           [model |-> <<"deepseek/deepseek-chat-v3.1:free">>,
                            messages |-> OpenAIMessages(messages, img, image),
                            stream |-> Bool(TRUE)])
            ELSE IF model = Str(N_qwen)
            THEN IF ~Truthy(env.QWEN_API_KEY) THEN caught("QWEN_API_KEY is not set")
                 ELSE call("qwen",
                           <<"https://dashscope.aliyuncs.com/api/v1/services/aigc/multimodal-generation/generation">>,
                           BearerHeaders(env.QWEN_API_KEY),
                           [model |-> <<"qwen-vl-plus">>,
                            input |-> [messages |->
                                         IF revision = "v4"
                                         THEN ScriptQwenMessages(messages, img,
                                                                 lastUserMessage)
                                         ELSE QwenMessages(messages, img, image,
                                                           lastUserMessage)]])
            ELSE [kind |-> "respond",
                  resp |-> ErrorResponse(400, PlainType, "invalid model"),
                  messages |-> messages]

\* --------------------------------------------------------------- upstream
\* A parsed JSON document of an upstream body: the values found at
\*   data.message, data.error (with its message),
\*   data.candidates[0].content.parts[0].text,
\*   data.choices[0].message.content,
\*   data.output.choices[0].message.content[0].text,
\* Undef where the path does not exist.  partial tells whether the objects on
\* the way to an absent value exist, so that reading the path without optional
\* chaining yields undefined instead of throwing.  NullDoc is the JSON text null.
Doc(error, gemini, openai, qwen) ==
    [t |-> "object", message |-> Undef, error |-> error,
     gemini |-> gemini, openai |-> openai, qwen |-> qwen, partial |-> FALSE]

NullDoc == [t |-> "null"]
GeminiReply == Doc(Undef, Str(<<"hello">>), Undef, Undef)
GeminiNullText == Doc(Undef, Null, Undef, Undef)
OpenAIReply == Doc(Undef, Undef, Str(<<"hello">>), Undef)
QwenReply == Doc(Undef, Undef, Undef, Str(<<"hello">>))
ErrorDoc == Doc([t |-> "object", message |-> Str(<<"quota">>)], Undef, Undef, Undef)
EmptyDoc == Doc(Undef, Undef, Undef, Undef)
\* {"candidates":[{"content":{"parts":[{}]}}],"choices":[{"message":{}}],...}
PartialDoc == [EmptyDoc EXCEPT !.partial = TRUE]

\* size is the number of characters of the body text
JsonBody(doc) == [fmt |-> "json", doc |-> doc, bytes |-> <<"JSON document">>, size |-> 13]
TextBody ==
    [fmt |-> "text", doc |-> NullDoc, bytes |-> <<"<html>Bad Gateway</html>">>, size |-> 24]
SseBody(bytes) == [fmt |-> "sse", doc |-> NullDoc, bytes |-> bytes, size |-> Len(bytes)]

\* rawErrorText.substring(0, 500)
DetailLimit == 500

\* errorText.substring(0, 200)
ScriptDetailLimit == 200

\* error bodies longer than the prefix the envelope may quote
LongTextBody == [TextBody EXCEPT !.size = DetailLimit + 1]
LongErrorBody == [JsonBody(ErrorDoc) EXCEPT !.size = DetailLimit + 1]

\* an OpenAI-compatible event stream: canonical frames, then the terminator
OpenAIStreams ==
    { DoneFrame,
      SseFrame(<<"H">>) \o DoneFrame }

\* whether the upstream call asks the provider for an event stream
AsksStream(desc) ==
    \/ \E i \in 1..Len(desc.url) : desc.url[i] = ":streamGenerateContent"
    \/ "stream" \in DOMAIN desc.body /\ Truthy(desc.body.stream)

\* ------------------------------------------------------------------ bounds
\* Number of segments of a Gemini body piped through the handler.
HandlerFrags == 1

\* --------------------------------------------------------------- the inputs
Revs == {"v1", "v2", "v3", "v4"}

\* the revisions whose handler is onRequestPost
PostRevs == {"v3", "v4"}

ContentTypes == {"none", JsonType, "text/plain"}

Key == Str(<<"K">>)

AllSet == [GEMINI_API_KEY |-> Key, OLLAMA_API_BASE_URL |-> Str(<<"http://ollama">>),
           OPENAI_API_KEY |-> Key, DEEPSEEK_API_KEY |-> Key, QWEN_API_KEY |-> Key,
           OPENROUTER_API_KEY |-> Key]

\* the environments: every variable set, or exactly one of them not set
Envs == {AllSet} \cup {[AllSet EXCEPT ![k] = Undef] : k \in DOMAIN AllSet}

Models ==
    { Undef, Num,
      Str(P_gemini), Str(P_gemini \o <<"-pro">>), Str(P_gpt \o <<"4">>),
      Str(N_chatgpt), Str(P_deepseek), Str(P_qwen), Str(P_ollama \o <<"llama3">>),
      Str(<<"f", "o", "o">>) }

MessageLists ==
    { Undef, Str(<<"not an array">>), Arr(<<>>), Arr(<<Null>>),
      Arr(<<Msg("user", <<"hi">>)>>),
      Arr(<<Msg("user", <<"hi">>), Msg("assistant", <<"yo">>)>>),
      Arr(<<Msg("assistant", <<"yo">>), Msg("user", <<"hi">>)>>),
      Arr(<<Msg("user", <<"hi">>), Msg("assistant", <<"yo">>), Msg("user", <<"ok">>)>>),
      Arr(<<Msg("user", <<"hi">>), Msg("user", <<"ok">>)>>) }

PngUrl == <<"data:", "i", "m", "a", "g", "e", "/", "p", "n", "g", ";base64,", "A", "A">>

Images == {Undef, Num, Str(PngUrl), Str(<<"h", "t", "t", "p", ":", "/", "/", "x">>)}

Streams == {Undef, Bool(TRUE), Bool(FALSE)}

NoParsed == [kind |-> "none", model |-> Undef, messages |-> Undef,
             stream |-> Undef, image |-> Undef]

ParsedBodies ==
    { [NoParsed EXCEPT !.kind = "unparseable"], [NoParsed EXCEPT !.kind = "null"] }
    \cup [kind : {"object"}, model : Models, messages : MessageLists,
          stream : Streams, image : Images]

UpStatuses == {200, 429, 500}

Ok(status) == status >= 200 /\ status <= 299

\* What the provider may answer to the call: 2xx with an event stream when one
\* was asked for and with any document or text otherwise; an error status with
\* an error document or text.
UpstreamBodies(provider, desc, status) ==
    IF ~Ok(status) THEN {JsonBody(ErrorDoc), TextBody, LongTextBody, LongErrorBody}
    ELSE IF AsksStream(desc)
    THEN IF provider = "gemini"
         THEN {SseBody(b) : b \in StreamsOf(HandlerFrags)}
         ELSE {SseBody(b) : b \in OpenAIStreams}
    ELSE {JsonBody(d) : d \in {GeminiReply, GeminiNullText, OpenAIReply, QwenReply,
                               ErrorDoc, EmptyDoc, PartialDoc, NullDoc}}
         \cup {TextBody}

NoUpstream == [kind |-> "none", status |-> 0, ctype |-> "none", body |-> TextBody]

NoDesc == [url |-> <<>>, method |-> "none", headers |-> {}, body |-> [none |-> TRUE]]

NoCall == [kind |-> "none", provider |-> "none", desc |-> NoDesc, messages |-> Undef]

\* the state of a normalizer that was not created
NoPeer == [src |-> <<>>, pos |-> 0, buffer |-> <<>>, pending |-> <<>>,
           out |-> <<>>, ended |-> FALSE]

\* ------------------------------------------------------------------ state
VARIABLES
    rev,       \* which revision of the handler runs
    env,       \* the environment variables
    pc,        \* where the handler is
    req,       \* the inbound request: Content-Type and parsed body
    call,      \* the upstream call prepared from it
    calls,     \* how many times fetch() was called
    up,        \* the upstream response
    bodyReads, \* how many times the upstream body was asked to be consumed
    resp,      \* what the handler returned
    src,       \* the bytes of the upstream response body
    pos,       \* how many of them have been read
    buffer,    \* transformGeminiStreamToSSE: let buffer
    pending,   \* the TextDecoder's held-back bytes
    out,       \* what has been enqueued to the client, in order
    ended,     \* the upstream signalled end-of-body and flush ran
    built,     \* the results of the provider request builder, in order
    cancelled, \* the client cancelled the streamed response
    peer,      \* the normalizer of a second request handled at the same time
    crev,      \* which revision of the browser client runs
    conversationHistory, \* the client's let conversationHistory
    controls,  \* the disabled flags of sendButton, modelSelect, uploadButton
    requests,  \* the chat requests the client sent: how many, in flight, last body
    submit     \* the client's submit handler: its position and its locals

hvars == <<rev, env, pc, req, call, calls, up, bodyReads, resp, built>>

nvars == <<src, pos, buffer, pending, out, ended, cancelled, peer>>

cvars == <<crev, conversationHistory, controls, requests, submit>>

vars == <<rev, env, pc, req, call, calls, up, bodyReads, resp,
          src, pos, buffer, pending, out, ended, built, cancelled, peer,
          crev, conversationHistory, controls, requests, submit>>

\* the controls as the page loads them, and after the finally block
Enabled == [sendButton |-> FALSE, modelSelect |-> FALSE, uploadButton |-> FALSE]

NoRequests == [count |-> 0, inflight |-> 0, messages |-> <<>>]

\* the submit handler when it is not running: pc is the await it stands at,
\* mark the length of conversationHistory when the request was sent, outcome
\* how its last run ended
NotSubmitting ==
    [pc |-> "idle", selectedModel |-> "none",
     response |-> [status |-> 0, ctype |-> "none", fmt |-> "none",
                   reply |-> [t |-> "undefined"], gemini |-> [t |-> "undefined"],
                   bytes |-> <<>>],
     pos |-> 0,
     buffer |-> <<>>, pending |-> <<>>, accumulatedContent |-> <<>>, mark |-> 0,
     outcome |-> "none"]

\* the client's variables when only the server side runs
ClientOff ==
    /\ crev = "none"
    /\ conversationHistory = <<>>
    /\ controls = Enabled
    /\ requests = NoRequests
    /\ submit = NotSubmitting

\* the handler's variables when only the normalizer runs
HandlerIdle ==
    /\ rev = "v1"
    /\ env = AllSet
    /\ pc = "streaming"
    /\ req = [ctype |-> JsonType, parsed |-> NoParsed]
    /\ call = NoCall
    /\ calls = 0
    /\ up = NoUpstream
    /\ bodyReads = 0
    /\ resp = NoResponse
    /\ built = <<>>

NormInit ==
    /\ HandlerIdle
    /\ src \in StreamsOf(MaxFrags)
    /\ pos = 0
    /\ buffer = <<>>
    /\ pending = <<>>
    /\ out = <<>>
    /\ ended = FALSE
    /\ cancelled = FALSE
    /\ peer = NoPeer
    /\ ClientOff

\* one read of the upstream body reaches transform()
NormRead ==
    /\ ~ended
    /\ ~cancelled
    /\ \E k \in 1..(Len(src) - pos) :
          LET r == Transform(buffer, pending, SubSeq(src, pos + 1, pos + k))
          IN  /\ buffer' = r.buffer
              /\ pending' = r.pending
              /\ out' = out \o r.frames
              /\ pos' = pos + k
    /\ UNCHANGED <<src, ended, cancelled, peer>>
    /\ UNCHANGED hvars
    /\ UNCHANGED cvars

\* the upstream body ends: flush()
NormEnd ==
    /\ ~ended
    /\ ~cancelled
    /\ pos = Len(src)
    /\ out' = out \o Flush
    /\ ended' = TRUE
    /\ UNCHANGED <<src, pos, buffer, pending, cancelled, peer>>
    /\ UNCHANGED hvars
    /\ UNCHANGED cvars

\* the client cancels with flush() run all the same
NormCancelFlushes ==
    /\ ~ended
    /\ ~cancelled
    /\ cancelled' = TRUE
    /\ out' = out \o Flush
    /\ UNCHANGED <<src, pos, buffer, pending, ended, peer>>
    /\ UNCHANGED hvars
    /\ UNCHANGED cvars

\* the client cancels the response body: the TransformStream is errored,
\* neither transform() nor flush() is called again
NormCancel ==
    /\ ~ended
    /\ ~cancelled
    /\ cancelled' = TRUE
    /\ UNCHANGED <<src, pos, buffer, pending, out, ended, peer>>
    /\ UNCHANGED hvars
    /\ UNCHANGED cvars

NormNext == NormRead \/ NormEnd \/ NormCancel

NormSpec == NormInit /\ [][NormNext]_vars

\* ------------------------------------------------------------ the handler
InternalError == "Worker internal error"

StreamResponse(status) ==
    [kind |-> "stream", status |-> status, ctype |-> SseType, body |-> [t |-> "stream"]]

\* handleChatRequest after backendResponse.json() with the reply read at
\* choices[0].message.content for every provider
AfterJsonChatOpenAIOnly(revision, provider, u) ==
    LET data == u.body.doc
        done(r) == [next |-> "done", resp |-> r]
    IN  IF u.body.fmt # "json" \/ ~Ok(u.status) THEN [next |-> "text", resp |-> NoResponse]
        ELSE IF data.t = "null" \/ data.openai.t = "undefined"
        THEN done(ErrorResponse(500, JsonType, "Unexpected response"))
        ELSE done(ReplyResponse(data.openai))

\* handleChatRequest after `data = await backendResponse.json()`: next "text"
\* calls backendResponse.text(), next "done" returns resp.  The envelopes for
\* an error status and for data.error carry the document whole, as
\* originalResponse.
AfterJsonChat(revision, provider, u) ==
    LET data == u.body.doc
        done(r) == [next |-> "done", resp |-> r]
        internal == done(ErrorResponse(500, JsonType, InternalError))
    IN  IF u.body.fmt # "json" THEN [next |-> "text", resp |-> NoResponse]
        ELSE IF ~Ok(u.status)
        THEN IF revision = "v2" THEN [next |-> "text", resp |-> NoResponse]
             ELSE IF data.t = "null" THEN internal
             ELSE done(Quoting(ErrorResponse(u.status, JsonType, "Backend API error"),
                               u.body.size))
        ELSE IF data.t = "null" THEN internal
        ELSE IF Truthy(data.error)
        THEN done(Quoting(ErrorResponse(u.status, JsonType, "Backend API error"),
                          u.body.size))
        ELSE LET replyContent == IF provider = PROVIDERS.GEMINI THEN data.gemini
                                 ELSE data.openai
             IN  IF replyContent.t = "undefined"
                 THEN done(ErrorResponse(500, JsonType, "Unexpected response"))
                 ELSE done(ReplyResponse(replyContent))

\* onRequestPost after `data = await apiResponse.json()`
AfterJsonPost(model, u) ==
    LET data == u.body.doc
        caught(msg) == ErrorResponse(500, PlainType, msg)
        reply == IF model = Str(N_gemini) THEN data.gemini
                 ELSE IF model = Str(N_qwen) THEN data.qwen
                 ELSE data.openai
    IN  IF u.body.fmt # "json" THEN caught("SyntaxError")
        ELSE IF data.t = "null" THEN caught("TypeError")
        ELSE IF reply.t = "undefined" /\ ~data.partial THEN caught("TypeError")
        ELSE ReplyResponse(reply)

\* onRequestPost of script.js after `data = await apiResponse.json()`: the
\* switch has no case for chatgpt and deepseek, whose reply stays ''
AfterJsonScript(model, u) ==
    LET data == u.body.doc
        caught(msg) == ErrorResponse(500, PlainType, msg)
        reply == IF model = Str(N_gemini) THEN data.gemini
                 ELSE IF model = Str(N_qwen) THEN data.qwen
                 ELSE Str(<<>>)
    IN  IF u.body.fmt # "json" THEN caught("SyntaxError")
        ELSE IF data.t = "null" THEN caught("TypeError")
        ELSE IF reply.t = "undefined" /\ ~data.partial THEN caught("TypeError")
        ELSE ReplyResponse(reply)

HInit ==
    /\ rev \in Revs
    /\ env \in Envs
    /\ pc = "entry"
    /\ req = [ctype |-> "none", parsed |-> NoParsed]
    /\ call = NoCall
    /\ calls = 0
    /\ up = NoUpstream
    /\ bodyReads = 0
    /\ resp = NoResponse
    /\ built = <<>>
    /\ src = <<>>
    /\ pos = 0
    /\ buffer = <<>>
    /\ pending = <<>>
    /\ out = <<>>
    /\ ended = FALSE
    /\ cancelled = FALSE
    /\ peer = NoPeer
    /\ ClientOff

\* POST /api/chat arrives.  handleChatRequest tests the Content-Type before it
\* calls request.json(); onRequestPost calls request.json() at once.
Receive ==
    /\ pc = "entry"
    /\ \E ct \in ContentTypes :
          /\ req' = [req EXCEPT !.ctype = ct]
          /\ IF rev \in {"v1", "v2"} /\ ct # JsonType
             THEN /\ resp' = ErrorResponse(415, JsonType, "Unsupported Media Type")
                  /\ pc' = "done"
             ELSE /\ resp' = resp
                  /\ pc' = "reqjson"
    /\ UNCHANGED <<built, rev, env, call, calls, up, bodyReads>>
    /\ UNCHANGED nvars
    /\ UNCHANGED cvars

\* request.json() settles; the handler runs up to its call of fetch()
RequestJson ==
    /\ pc = "reqjson"
    /\ \E parsed \in ParsedBodies :
          LET r == IF rev \in PostRevs THEN PrepareOnRequestPost(rev, parsed, env)
                   ELSE PrepareChat(rev, parsed, env)
          IN  /\ req' = [req EXCEPT !.parsed = parsed]
              /\ IF r.kind = "respond"
                 THEN /\ resp' = r.resp
                      /\ pc' = "done"
                      /\ call' = [NoCall EXCEPT !.messages = r.messages]
                      /\ calls' = calls
                 ELSE /\ resp' = resp
                      /\ pc' = "fetching"
                      /\ call' = r
                      /\ calls' = calls + 1
    /\ UNCHANGED <<built, rev, env, up, bodyReads>>
    /\ UNCHANGED nvars
    /\ UNCHANGED cvars

\* the catch around fetch() and the reads of its response
Caught(msg) ==
    IF rev \in PostRevs THEN ErrorResponse(500, PlainType, msg)
    ELSE ErrorResponse(500, JsonType, InternalError)

\* whether the handler returns the upstream body as an event stream
PipesStream ==
    IF rev = "v3" THEN "stream" \in DOMAIN call.desc.body /\ Truthy(call.desc.body.stream)
    ELSE IF rev = "v4" THEN call.provider \in {"chatgpt", "deepseek"}
    ELSE Truthy(req.parsed.stream)

\* whether the piped body goes through transformGeminiStreamToSSE()
Normalizes == rev \in {"v1", "v2"} /\ call.provider = PROVIDERS.GEMINI

\* fetch() rejects: the network failed
FetchFails ==
    /\ pc = "fetching"
    /\ resp' = Caught("fetch failed")
    /\ pc' = "done"
    /\ UNCHANGED <<built, rev, env, req, call, calls, up, bodyReads>>
    /\ UNCHANGED nvars
    /\ UNCHANGED cvars

\* fetch() resolves with the upstream response; the handler runs up to its
\* next await or returns the streamed Response
FetchReturns ==
    /\ pc = "fetching"
    /\ \E status \in UpStatuses :
       \E body \in UpstreamBodies(call.provider, call.desc, status) :
          /\ up' = [kind |-> "response", status |-> status,
                    ctype |-> IF body.fmt = "json" THEN JsonType
                              ELSE IF body.fmt = "sse" THEN SseType ELSE "text/html",
                    body |-> body]
          /\ bodyReads' = 1
          /\ IF rev \in PostRevs /\ ~Ok(status)
             THEN /\ pc' = "uptext"
                  /\ UNCHANGED <<resp, src>>
             ELSE IF PipesStream
             THEN /\ pc' = "streaming"
                  /\ resp' = StreamResponse(status)
                  /\ src' = body.bytes
             ELSE /\ pc' = "upjson"
                  /\ UNCHANGED <<resp, src>>
    /\ UNCHANGED <<built, rev, env, req, call, calls>>
    /\ UNCHANGED <<pos, buffer, pending, out, ended, cancelled, peer>>
    /\ UNCHANGED cvars

\* the upstream response's json() settles
UpJsonReturns ==
    /\ pc = "upjson"
    /\ IF rev \in PostRevs
       THEN /\ resp' = IF rev = "v4" THEN AfterJsonScript(req.parsed.model, up)
                       ELSE AfterJsonPost(req.parsed.model, up)
            /\ pc' = "done"
            /\ bodyReads' = bodyReads
       ELSE LET r == AfterJsonChat(rev, call.provider, up)
            IN  IF r.next = "text"
                THEN /\ bodyReads' = bodyReads + 1
                     /\ pc' = "uptext"
                     /\ resp' = resp
                ELSE /\ bodyReads' = bodyReads
                     /\ pc' = "done"
                     /\ resp' = r.resp
    /\ UNCHANGED <<built, rev, env, req, call, calls, up>>
    /\ UNCHANGED nvars
    /\ UNCHANGED cvars

\* the upstream response's text() settles: it rejects when the body was
\* consumed before; in onRequestPost it is the first read and the handler
\* throws an Error whose message ends with the text it got, whole in
\* functions/api/chat.js and cut by substring(0, 200) in script.js.  Both end
\* in the catch.
UpTextReturns ==
    /\ pc = "uptext"
    /\ resp' = IF bodyReads > 1 THEN Caught("Body has already been used")
               ELSE IF rev = "v4"
               THEN Quoting(Caught("API error"),
                            IF up.body.size < ScriptDetailLimit THEN up.body.size
                            ELSE ScriptDetailLimit)
               ELSE Quoting(Caught("API error"), up.body.size)
    /\ pc' = "done"
    /\ UNCHANGED <<built, rev, env, req, call, calls, up, bodyReads>>
    /\ UNCHANGED nvars
    /\ UNCHANGED cvars

\* one read of the piped upstream body is delivered to the client, through
\* the normalizer for Gemini and unchanged otherwise (out then holds the bytes
\* delivered so far as one element)
StreamRead ==
    /\ pc = "streaming"
    /\ \E k \in 1..(Len(src) - pos) :
          LET chunk == SubSeq(src, pos + 1, pos + k)
              r == Transform(buffer, pending, chunk)
          IN  /\ pos' = pos + k
              /\ IF Normalizes
                 THEN /\ buffer' = r.buffer
                      /\ pending' = r.pending
                      /\ out' = out \o r.frames
                 ELSE /\ out' = <<Flatten(out) \o chunk>>
                      /\ UNCHANGED <<buffer, pending>>
    /\ UNCHANGED <<src, ended, cancelled, peer>>
    /\ UNCHANGED hvars
    /\ UNCHANGED cvars

\* the piped upstream body ends
StreamEnd ==
    /\ pc = "streaming"
    /\ pos = Len(src)
    /\ out' = IF Normalizes THEN out \o Flush ELSE out
    /\ ended' = TRUE
    /\ pc' = "done"
    /\ UNCHANGED <<built, rev, env, req, call, calls, up, bodyReads, resp>>
    /\ UNCHANGED <<src, pos, buffer, pending, cancelled, peer>>
    /\ UNCHANGED cvars

Next ==
    \/ Receive
    \/ RequestJson
    \/ FetchFails
    \/ FetchReturns
    \/ UpJsonReturns
    \/ UpTextReturns
    \/ StreamRead
    \/ StreamEnd

Spec == HInit /\ [][Next]_vars

\* what the normalizer emits when the bytes arrive as one chunk
OneChunk(bytes) ==
    IF bytes = <<>> THEN <<>> ELSE Transform(<<>>, <<>>, bytes).frames

\* C2: however the upstream bytes are cut into reads, the frames emitted so
\* far are those emitted when the bytes read so far arrive as a single chunk,
\* and after end-of-body the whole output equals the single-chunk output
\* followed by the terminator.
C2_ChunkingInvariant ==
    out = OneChunk(SubSeq(src, 1, pos)) \o (IF ended THEN Flush ELSE <<>>)

\* a read ended inside the 'data: ' marker of a later fragment, after a frame
\* had been emitted
C2_Witness_CutInMarker ==
    /\ ~ended
    /\ buffer = <<"d", "a", "t">>
    /\ Len(out) >= 1

\* ----------------------------------------------------------------- claims
\* the bytes the client has received on a streamed response
ClientBody == Flatten(out)

DoneLine == Marker \o <<"[DONE]">>

IsErrorEnvelope(r) == r.kind = "json" /\ r.body.t = "error"

Responded == resp.kind # "none"

\* C1: once the upstream body has ended, the body of every streamed response
\* ends with the terminator frame, and the terminator occurs exactly once in it.
C1_EndsWithOneDone ==
    (resp.kind = "stream" /\ ended) =>
        LET segs == Split(ClientBody)
        IN  /\ Len(segs) >= 2
            /\ segs[Len(segs)] = <<>>
            /\ segs[Len(segs) - 1] = DoneLine
            /\ Cardinality({i \in 1..Len(segs) : segs[i] = DoneLine}) = 1

\* C3: the upstream response body is never asked to be consumed a second time.
C3_BodyReadOnce == bodyReads <= 1

\* C4: whatever the request and the upstream outcome, the handler ends by
\* returning a response (a reply, a stream or an error envelope); no
\* exception leaves it.
C4_NoEscape == pc = "done" => resp.kind \in {"json", "stream"}

\* C5: an upstream 429 is answered with status 429 and an error envelope.
C5_RateLimited ==
    (up.kind = "response" /\ up.status = 429 /\ Responded) =>
        (resp.status = 429 /\ IsErrorEnvelope(resp))

\* C6: an upstream status outside 2xx on a streaming request is answered with
\* an error envelope, never with an event stream.
C6_NoStreamedError ==
    (up.kind = "response" /\ ~Ok(up.status) /\ Truthy(req.parsed.stream) /\ Responded) =>
        IsErrorEnvelope(resp)

\* C7: an unparseable body, a missing model, and messages that are absent, not
\* an array or empty are answered with 400 and an error envelope, and fetch()
\* is not called.
InvalidRequest ==
    \/ req.parsed.kind = "unparseable"
    \/ /\ req.parsed.kind = "object"
       /\ \/ req.parsed.model.t = "undefined"
          \/ req.parsed.messages.t # "array"
          \/ req.parsed.messages = Arr(<<>>)

C7_InvalidRequest400 ==
    InvalidRequest =>
        (pc = "done" /\ resp.status = 400 /\ IsErrorEnvelope(resp) /\ calls = 0)

\* C8: a request whose Content-Type is absent or not JSON is answered with a
\* 4xx error envelope before its body is parsed and before fetch() is called.
C8_MediaTypeRejected ==
    (pc # "entry" /\ req.ctype # JsonType) =>
        /\ pc = "done"
        /\ IsErrorEnvelope(resp)
        /\ resp.status >= 400 /\ resp.status <= 499
        /\ req.parsed.kind = "none"
        /\ calls = 0

\* the credential the provider of the prepared call needs
CallCredential ==
    IF call.provider = "gemini" THEN env.GEMINI_API_KEY
    ELSE IF call.provider = "chatgpt" THEN env.OPENAI_API_KEY
    ELSE IF call.provider = "deepseek" /\ rev = "v4" THEN env.OPENROUTER_API_KEY
    ELSE IF call.provider = "deepseek" THEN env.DEEPSEEK_API_KEY
    ELSE IF call.provider = "qwen" THEN env.QWEN_API_KEY
    ELSE Key

\* C9: fetch() is never called for a provider whose credential is not set in
\* the environment.
C9_NoCallWithoutCredential == call.kind = "fetch" => Truthy(CallCredential)

\* whether a model name belongs to a provider family of the running revision
KnownModel(m) ==
    /\ m.t = "string"
    /\ IF rev \in PostRevs THEN m.s \in {N_gemini, N_chatgpt, N_deepseek, N_qwen}
       ELSE StartsWith(m.s, P_gemini) \/ IsOllamaModel(m)

\* C10: a request whose model belongs to no provider family is answered with a
\* 4xx error envelope and fetch() is not called.
C10_UnsupportedModel ==
    (req.parsed.kind = "object" /\ ~KnownModel(req.parsed.model)) =>
        /\ pc = "done"
        /\ IsErrorEnvelope(resp)
        /\ resp.status >= 400 /\ resp.status <= 499
        /\ calls = 0

\* ------------------------------------------------- the builder on its own
\* How many times the provider request is built from one request value.
BuildRuns == 2

\* the run from the parsed body to the call of fetch(), for each revision
Prepare(revision, parsed, e) ==
    IF revision \in PostRevs THEN PrepareOnRequestPost(revision, parsed, e)
    ELSE PrepareChat(revision, parsed, e)

\* The request value is req.parsed; its turn objects are shared with the
\* builder, and call.messages is what they hold now.
BuildInit ==
    /\ rev \in Revs
    /\ env \in Envs
    /\ pc = "reqjson"
    /\ req \in [ctype : {JsonType}, parsed : ParsedBodies]
    /\ call = [NoCall EXCEPT !.messages = req.parsed.messages]
    /\ calls = 0
    /\ up = NoUpstream
    /\ bodyReads = 0
    /\ resp = NoResponse
    /\ built = <<>>
    /\ src = <<>>
    /\ pos = 0
    /\ buffer = <<>>
    /\ pending = <<>>
    /\ out = <<>>
    /\ ended = FALSE
    /\ cancelled = FALSE
    /\ peer = NoPeer
    /\ ClientOff

\* the builder runs on the request value as it is now
Build ==
    /\ Len(built) < BuildRuns
    /\ LET r == Prepare(rev, [req.parsed EXCEPT !.messages = call.messages], env)
       IN  /\ built' = Append(built,
                             [kind |-> r.kind,
                              desc |-> IF r.kind = "fetch" THEN r.desc ELSE NoDesc,
                              resp |-> IF r.kind = "respond" THEN r.resp ELSE NoResponse])
           /\ call' = [call EXCEPT !.messages = r.messages]
    /\ UNCHANGED <<rev, env, pc, req, calls, up, bodyReads, resp>>
    /\ UNCHANGED nvars
    /\ UNCHANGED cvars

BuildSpec == BuildInit /\ [][Build]_vars

\* C14: the turn objects of the incoming messages array hold after the
\* provider request was built what they held when the request was parsed.
C14_MessagesUntouched == call.messages = req.parsed.messages

\* C15: two builds from the same request value (same model, same turn objects,
\* same image, same stream flag, same environment) give the same result: the
\* same descriptor, or the same refusal.
C15_BuildTwiceSame ==
    \A i, j \in 1..Len(built) : built[i] = built[j]

\* ------------------------------------------------------- buffered replies
\* the value found in the upstream document at the reply path of the call's
\* provider
ReplyPathValue ==
    IF call.provider = "gemini" THEN up.body.doc.gemini
    ELSE IF call.provider = "qwen" THEN up.body.doc.qwen
    ELSE up.body.doc.openai

\* the handler finished a buffered exchange whose upstream answered 2xx with a
\* JSON object
BufferedJsonOk ==
    /\ pc = "done"
    /\ ~PipesStream
    /\ up.kind = "response"
    /\ Ok(up.status)
    /\ up.body.fmt = "json"
    /\ up.body.doc.t = "object"

\* C11: a response that is not a stream is either status 200 with a reply that
\* is a string, or a 4xx/5xx status with an error envelope.
C11_ReplyOrError ==
    (pc = "done" /\ resp.kind = "json") =>
        \/ /\ resp.status = 200
           /\ resp.body.t = "reply"
           /\ resp.body.reply.t = "string"
        \/ /\ resp.status >= 400 /\ resp.status <= 599
           /\ resp.body.t = "error"

\* C12: when the upstream answers a buffered call 2xx with a document that
\* holds a text at the reply path of the provider family (Gemini:
\* candidates[0].content.parts[0].text, OpenAI-compatible:
\* choices[0].message.content) and no error member, the handler returns 200
\* with that text as the reply.
C12_ReplyExtracted ==
    (/\ BufferedJsonOk
     /\ call.provider # "qwen"
     /\ ~Truthy(up.body.doc.error)
     /\ ReplyPathValue.t = "string") =>
        resp = ReplyResponse(ReplyPathValue)

\* the buildApiConfig revision returned the text an OpenAI-compatible upstream
\* answered with
C12_Witness_OllamaReply ==
    /\ pc = "done"
    /\ rev = "v2"
    /\ call.provider = PROVIDERS.OLLAMA
    /\ up.body.doc = OpenAIReply
    /\ resp = ReplyResponse(Str(<<"hello">>))

\* C13: when the upstream answers a buffered call 2xx with a JSON object that
\* has no value at the reply path of the provider, the handler returns a 5xx
\* error envelope.
C13_ShapeError ==
    (BufferedJsonOk /\ ReplyPathValue.t = "undefined") =>
        /\ IsErrorEnvelope(resp)
        /\ resp.status >= 500 /\ resp.status <= 599

\* ------------------------------------------------- the built descriptor
\* the image of the request parses as a data URL of an image
ValidImage(image) == image.t = "string" /\ ImageMatch(image.s).matched

\* the turns of a built body: contents (Gemini), messages (OpenAI-compatible)
\* or input.messages (DashScope)
BodyTurns(desc) ==
    IF "contents" \in DOMAIN desc.body THEN desc.body.contents
    ELSE IF "messages" \in DOMAIN desc.body THEN desc.body.messages
    ELSE IF "input" \in DOMAIN desc.body THEN desc.body.input.messages
    ELSE <<>>

IsGeminiTurn(turn) == "parts" \in DOMAIN turn /\ "content" \notin DOMAIN turn

\* how many image references a turn of a built body holds
ImageRefs(turn) ==
    IF "t" \in DOMAIN turn /\ IsNullish(turn) THEN 0
    ELSE IF IsGeminiTurn(turn)
    THEN Cardinality({k \in 1..Len(turn.parts) : "inline_data" \in DOMAIN turn.parts[k]})
    ELSE IF turn.content.t # "array" THEN 0
    ELSE Cardinality({k \in 1..Len(turn.content.a) :
                         \/ "image_url" \in DOMAIN turn.content.a[k]
                         \/ "image" \in DOMAIN turn.content.a[k]})

\* the text of a turn of a built body
TurnText(turn) == IF IsGeminiTurn(turn) THEN turn.parts[1].text ELSE turn.content

RECURSIVE IsSubseq(_, _)
IsSubseq(a, b) ==
    IF a = <<>> THEN TRUE
    ELSE IF b = <<>> THEN FALSE
    ELSE IF Head(a) = Head(b) THEN IsSubseq(Tail(a), Tail(b))
    ELSE IsSubseq(a, Tail(b))

\* C16: the descriptor built from a request with a valid image holds exactly
\* one image reference, and it is in the last turn whose role is user.
C16_OneImageAtLastUser ==
    (call.kind = "fetch" /\ ValidImage(req.parsed.image)) =>
        LET turns == BodyTurns(call.desc)
            u == LastUserIndex(turns)
        IN  /\ u > 0
            /\ \A i \in 1..Len(turns) : ImageRefs(turns[i]) = (IF i = u THEN 1 ELSE 0)

\* C17: for Gemini and a valid image, contents has one entry per input turn,
\* and the parts of its last user entry are the turn's text part followed by
\* one inline-data part with the mime type and the data parsed from the image.
C17_GeminiInlinePart ==
    (call.kind = "fetch" /\ call.provider = "gemini" /\ ValidImage(req.parsed.image)) =>
        LET contents == call.desc.body.contents
            input == req.parsed.messages.a
            u == LastUserIndex(contents)
            m == ImageMatch(req.parsed.image.s)
        IN  /\ Len(contents) = Len(input)
            /\ u > 0
            /\ contents[u].parts =
                  <<[text |-> input[u].content],
                    [inline_data |-> [mime_type |-> m.mimeType, data |-> m.data]]>>

\* C18: for the OpenAI-compatible family and a valid image, the content of the
\* last user message of the body is a text element with the original text of
\* the last user turn followed by an image-url element with the request's
\* data URL unchanged.
C18_OpenAIImageContent ==
    (/\ call.kind = "fetch"
     /\ call.provider \in {PROVIDERS.OLLAMA, "chatgpt", "deepseek"}
     /\ ValidImage(req.parsed.image)) =>
        LET turns == call.desc.body.messages
            input == req.parsed.messages.a
            u == LastUserIndex(turns)
            v == LastUserIndex(input)
        IN  /\ u > 0
            /\ v > 0
            /\ turns[u].content =
                  Arr(<<[type |-> "text", text |-> input[v].content],
                        [type |-> "image_url", image_url |-> [url |-> req.parsed.image]]>>)

\* C19: a request whose image is absent, or present without parsing as a data
\* URL of an image, leads to fetch() with the descriptor that the same request
\* without the image field leads to, and to no call when that one leads to none.
C19_NoImageSame ==
    (/\ pc \notin {"entry", "reqjson"}
     /\ req.parsed.kind = "object"
     /\ ~ValidImage(req.parsed.image)) =>
        LET r0 == Prepare(rev, [req.parsed EXCEPT !.image = Undef], env)
        IN  IF r0.kind = "fetch"
            THEN call.kind = "fetch" /\ call.desc = r0.desc
            ELSE call.kind # "fetch"

\* C20: for a request without image whose messages are turn objects, the texts
\* of the input turns occur in the built body in their original order.
C20_TurnsInOrder ==
    (/\ call.kind = "fetch"
     /\ req.parsed.image = Undef
     /\ \A i \in 1..Len(req.parsed.messages.a) : ~IsNullish(req.parsed.messages.a[i])) =>
        LET input == req.parsed.messages.a
            turns == BodyTurns(call.desc)
        IN  IsSubseq([i \in 1..Len(input) |-> input[i].content],
                     [i \in 1..Len(turns) |-> TurnText(turns[i])])

\* onRequestPost built the chatgpt body from a history of three turns
C20_Witness_ThreeTurns ==
    /\ call.kind = "fetch"
    /\ rev = "v3"
    /\ call.provider = "chatgpt"
    /\ req.parsed.image = Undef
    /\ Len(req.parsed.messages.a) = 3
    /\ Len(call.desc.body.messages) = 4

\* C21: for the OpenAI-compatible family, every input turn has its role
\* unchanged on the corresponding message of the built body (the messages of
\* the body that follow an injected system message), the last turn included.
C21_RolesUnchanged ==
    (/\ call.kind = "fetch"
     /\ call.provider \in {PROVIDERS.OLLAMA, "chatgpt", "deepseek"}
     /\ \A i \in 1..Len(req.parsed.messages.a) : ~IsNullish(req.parsed.messages.a[i])) =>
        LET input == req.parsed.messages.a
            turns == call.desc.body.messages
            off == Len(turns) - Len(input)
        IN  /\ off >= 0
            /\ \A i \in 1..Len(input) : turns[i + off].role = input[i].role

UrlHas(url, token) == \E i \in 1..Len(url) : url[i] = token

\* C22: the URL of a Gemini call names generateContent when the reply is
\* buffered and streamGenerateContent with alt=sse when it is streamed; the
\* key is a parameter of the query string, after the '?', and no
\* Authorization header is sent.
C22_GeminiUrl ==
    (call.kind = "fetch" /\ call.provider = "gemini") =>
        LET url == call.desc.url
        IN  /\ IF PipesStream
               THEN UrlHas(url, ":streamGenerateContent") /\ UrlHas(url, "alt=sse")
               ELSE UrlHas(url, ":generateContent")
            /\ \E i, j \in 1..Len(url) : i < j /\ url[i] = "?" /\ url[j] = "key="
            /\ \A h \in call.desc.headers : h[1] # "Authorization"

\* C23: the contents of a Gemini call are not empty and begin with a user
\* turn; a history without a user turn leads to no call.
C23_GeminiStartsWithUser ==
    (call.kind = "fetch" /\ call.provider = "gemini") =>
        /\ Len(call.desc.body.contents) > 0
        /\ call.desc.body.contents[1].role = "user"

\* a turn of contents whose only part is a text
TextOnly(turn) == Len(turn.parts) = 1 /\ "text" \in DOMAIN turn.parts[1]

\* C24: the contents of a Gemini call never hold two adjacent text-only turns
\* with the same role.
C24_GeminiMerged ==
    (call.kind = "fetch" /\ call.provider = "gemini") =>
        LET contents == call.desc.body.contents
        IN  \A i \in 1..(Len(contents) - 1) :
               ~(/\ contents[i].role = contents[i + 1].role
                 /\ TextOnly(contents[i])
                 /\ TextOnly(contents[i + 1]))

\* ------------------------------------------------ the normalizer's frames
\* the complete segments of the text that the bytes decode to
CompleteLines(bytes) ==
    LET lines == Split(DecodeBytes(bytes).chars)
    IN  SubSeq(lines, 1, Len(lines) - 1)

\* a segment with the marker whose JSON does not parse
Malformed(line) ==
    StartsWith(line, Marker) /\ GeminiChunkText(Substring(line, MarkerLen)).threw

\* a segment with the marker whose JSON holds a non-empty text
HasText(line) ==
    /\ StartsWith(line, Marker)
    /\ ~GeminiChunkText(Substring(line, MarkerLen)).threw
    /\ GeminiChunkText(Substring(line, MarkerLen)).text # <<>>

LineText(line) == GeminiChunkText(Substring(line, MarkerLen)).text

\* the frames emitted, the terminator left out
ContentFrames == SelectSeq(out, LAMBDA f : f # DoneFrame)

\* what stands in a frame between the opening and the closing of its payload
FrameText(frame) == SubSeq(frame, MarkerLen + 2, Len(frame) - 3)

RECURSIVE FragmentTexts(_)
FragmentTexts(lines) ==
    IF lines = <<>> THEN <<>>
    ELSE (IF HasText(Head(lines)) THEN <<LineText(Head(lines))>> ELSE <<>>)
         \o FragmentTexts(Tail(lines))

\* C25: at every moment, and however the bytes were cut into reads, the texts
\* of the frames emitted are the texts of the frame-producing fragments read
\* so far, in the order of the fragments.
C25_OrderPreserved ==
    [i \in 1..Len(ContentFrames) |-> FrameText(ContentFrames[i])]
        = FragmentTexts(CompleteLines(SubSeq(src, 1, pos)))

\* two frames with different texts were emitted and more bytes are to come
C25_Witness_TwoFrames ==
    /\ ~ended
    /\ pos < Len(src)
    /\ Len(out) = 2
    /\ out[1] # out[2]

\* C26: when the stream has ended, the output ends with the terminator, every
\* other frame is a canonical frame (no error frame), and every fragment with
\* a text that came after a malformed fragment has its frame in the output.
C26_MalformedSkipped ==
    ended =>
        LET lines == CompleteLines(src)
        IN  /\ Len(out) >= 1
            /\ out[Len(out)] = DoneFrame
            /\ \A i \in 1..(Len(out) - 1) :
                   IsText(FrameText(out[i])) /\ out[i] = SseFrame(FrameText(out[i]))
            /\ \A k, j \in 1..Len(lines) :
                   (k < j /\ Malformed(lines[k]) /\ HasText(lines[j])) =>
                       \E i \in 1..Len(out) : out[i] = SseFrame(LineText(lines[j]))

\* a fragment cut short was followed by a valid one, and the stream ended
C26_Witness_ValidAfterMalformed ==
    /\ ended
    /\ src = Marker \o <<GemOpen, "H", NL, NL>> \o GemSegment(<<"H", "i">>) \o <<NL, NL>>
    /\ out = <<SseFrame(<<"H", "i">>), DoneFrame>>

C28_NoDoneOnCancel ==
    /\ cancelled => \A i \in 1..Len(out) : out[i] # DoneFrame
    /\ (\E i \in 1..Len(out) : out[i] = DoneFrame) => (ended /\ pos = Len(src))

\* the client cancelled after a frame was emitted and before the body ended
C28_Witness_CancelledMidway ==
    /\ cancelled
    /\ Len(out) >= 1
    /\ pos < Len(src)

\* ------------------------------------------------- two requests at once
\* Number of segments of the first request's Gemini body.
PairFrags == 1

\* the Gemini bodies of the second request
PeerStreams ==
    { GemSegment(<<"H", "i">>) \o <<NL, NL>>,
      GemSegment(<<TwoByteChar>>) \o <<NL, NL>> \o GemSegment(<<"i">>) \o <<NL, NL>> }

\* Two streaming Gemini requests: each pipeThrough(transformGeminiStreamToSSE())
\* created its own buffer and decoder.
PairInit ==
    /\ HandlerIdle
    /\ src \in StreamsOf(PairFrags)
    /\ pos = 0
    /\ buffer = <<>>
    /\ pending = <<>>
    /\ out = <<>>
    /\ ended = FALSE
    /\ cancelled = FALSE
    /\ peer \in {[NoPeer EXCEPT !.src = s] : s \in PeerStreams}
    /\ ClientOff

\* one buffer for both requests
SharedBuffer == buffer

\* the buffer that the second request's transform() reads: the `let buffer` of
\* its own call of transformGeminiStreamToSSE()
PeerBuffer == peer.buffer

\* one read of the second request's upstream body reaches its transform()
PeerRead ==
    /\ ~peer.ended
    /\ \E k \in 1..(Len(peer.src) - peer.pos) :
          LET r == Transform(PeerBuffer, peer.pending,
                             SubSeq(peer.src, peer.pos + 1, peer.pos + k))
          IN  peer' = [peer EXCEPT !.buffer = r.buffer,
                                   !.pending = r.pending,
                                   !.out = @ \o r.frames,
                                   !.pos = @ + k]
    /\ UNCHANGED <<src, pos, buffer, pending, out, ended, cancelled>>
    /\ UNCHANGED hvars
    /\ UNCHANGED cvars

\* the second request's upstream body ends: its flush()
PeerEnd ==
    /\ ~peer.ended
    /\ peer.pos = Len(peer.src)
    /\ peer' = [peer EXCEPT !.out = @ \o Flush, !.ended = TRUE]
    /\ UNCHANGED <<src, pos, buffer, pending, out, ended, cancelled>>
    /\ UNCHANGED hvars
    /\ UNCHANGED cvars

PairNext == NormRead \/ NormEnd \/ PeerRead \/ PeerEnd

PairSpec == PairInit /\ [][PairNext]_vars

\* C30: with the reads of two streaming Gemini requests interleaved in any
\* order, the frames each client has received are those its request gives
\* when handled alone (the single-chunk output of the bytes read so far, and
\* the terminator after end-of-body).
C30_Independent ==
    /\ out = OneChunk(SubSeq(src, 1, pos)) \o (IF ended THEN Flush ELSE <<>>)
    /\ peer.out = OneChunk(SubSeq(peer.src, 1, peer.pos))
                     \o (IF peer.ended THEN Flush ELSE <<>>)

\* both normalizers hold an incomplete segment, each its own, after the second
\* one emitted a frame
C30_Witness_BothMidSegment ==
    /\ buffer # <<>>
    /\ peer.buffer # <<>>
    /\ buffer # peer.buffer
    /\ Len(peer.out) >= 1
    /\ ~ended
    /\ ~peer.ended

\* ------------------------------------------------------------- liveness
\* The handler's own steps are taken once they can be: the runtime resumes it
\* when request.json(), and json() or text() of a response that arrived,
\* settle.  Nothing makes fetch() settle or the upstream body make progress:
\* the call carries no timeout and no abort signal.
LiveSpec ==
    /\ HInit
    /\ [][Next]_vars
    /\ WF_vars(Receive)
    /\ WF_vars(RequestJson)
    /\ WF_vars(UpJsonReturns)
    /\ WF_vars(UpTextReturns)

\* C29: a request for which fetch() was called eventually gets a response,
\* whatever the upstream does.
C29_EventuallyResponds == (pc = "fetching") ~> Responded

\* ------------------------------------------------- the carried buffer
HasBoundary(s) == \E i \in 1..(Len(s) - 1) : s[i] = NL /\ s[i + 1] = NL

\* the bytes received after the last boundary received
TailBytes ==
    LET segs == Split(SubSeq(src, 1, pos))
    IN  segs[Len(segs)]

\* C31: after every call of transform() the buffer contains no double-newline
\* boundary and is no longer than the bytes received since the last boundary.
C31_BufferIsTail ==
    /\ ~HasBoundary(buffer)
    /\ Len(buffer) <= Len(TailBytes)

\* transform() ran after a boundary had passed, and holds an incomplete
\* segment whose last byte has not been decoded yet
C31_Witness_TailHeld ==
    /\ ~ended
    /\ Len(out) >= 1
    /\ buffer # <<>>
    /\ pending = <<LeadByte>>
    /\ Len(buffer) < Len(TailBytes)

\* ------------------------------------------------------ streaming mode
\* C32: the handler asks the upstream response for one buffered JSON document
\* only if the upstream call did not ask for an event stream, and returns the
\* upstream body as an event stream only if it did.
C32_ModeAgrees ==
    /\ pc = "upjson" => ~AsksStream(call.desc)
    /\ resp.kind = "stream" => AsksStream(call.desc)

\* ------------------------------------------------- the error envelope
\* C33: the error envelope returned for an upstream answer outside 2xx holds
\* at most the first 500 characters of the upstream body.
C33_BoundedQuote ==
    (up.kind = "response" /\ ~Ok(up.status) /\ IsErrorEnvelope(resp)) =>
        resp.body.quoted <= DetailLimit

\* --------------------------------------------------- the end of the body
\* the segment the body ends with, after its last boundary
LastSegment ==
    LET lines == Split(DecodeBytes(src).chars)
    IN  lines[Len(lines)]

\* C34: when the body has ended with a segment that has the marker and a
\* text but no boundary after it, the frame of that segment stands in the
\* output right before the terminator.
C34_TailEmitted ==
    (ended /\ HasText(LastSegment)) =>
        /\ Len(out) >= 2
        /\ out[Len(out)] = DoneFrame
        /\ out[Len(out) - 1] = SseFrame(LineText(LastSegment))

\* ------------------------------------------- one message per input turn
\* the messages of a built body after the injected system message, if any
SentTurns(desc) ==
    LET turns == BodyTurns(desc)
    IN  IF turns # <<>> /\ turns[1] = SystemMessage THEN Tail(turns) ELSE turns

\* C35: the body built for the OpenAI-compatible family holds, besides an
\* injected system message, as many messages as the request has turns.
C35_OneMessagePerTurn ==
    (call.kind = "fetch" /\ call.provider \in {PROVIDERS.OLLAMA, "chatgpt", "deepseek"}) =>
        Len(SentTurns(call.desc)) = Len(req.parsed.messages.a)

\* ------------------------------------------------------ the browser client
\* How many messages the user submits.
MaxSubmits == 2
\* How many content frames a streamed answer of the chat endpoint holds.
ClientFrames == 1

\* the client revisions: the second script of script.js (with
\* handleStreamedResponse) and the three scripts under unnamed/
ClientRevs == {"script", "part_000", "part_001", "part_002"}

Disabled == [sendButton |-> TRUE, modelSelect |-> TRUE, uploadButton |-> TRUE]

\* the controls after the handler's try / catch / finally, with the
\* re-enabling left out when the catch ran
FinallyOnSuccess(threw) == IF threw THEN Disabled ELSE Enabled

\* the controls after the handler's try / catch / finally
Finally(threw) == Enabled

\* messageInput.value.trim()
UserMessages == {<<>>, <<"o", "k">>}

\* modelSelect.value
ClientModels == {"chatgpt", "gemini"}

ImagePlaceholder == <<"(image)">>

\* conversationHistory.slice(-5)
HistoryWindow == 5

SliceLast(h) ==
    IF Len(h) <= HistoryWindow THEN h ELSE SubSeq(h, Len(h) - HistoryWindow + 1, Len(h))

\* the user turn the submit handler pushes
UserTurn(revision, userMessage) ==
    [role |-> "user",
     content |-> IF revision \in {"script", "part_000"} /\ userMessage = <<>>
                 THEN ImagePlaceholder ELSE userMessage]

AssistantTurn(text) == [role |-> "assistant", content |-> text]

\* an event stream of the chat endpoint: up to n content frames, with or
\* without the terminator
RECURSIVE FramesOf(_)
FramesOf(n) ==
    IF n = 0 THEN {<<>>}
    ELSE LET shorter == FramesOf(n - 1)
         IN  shorter \cup {s \o EncodeChars(SseFrame(<<c>>)) : s \in shorter, c \in {"H", "i"}}

Answer(status, ctype, fmt, reply, gemini, bytes) ==
    [status |-> status, ctype |-> ctype, fmt |-> fmt, reply |-> reply,
     gemini |-> gemini, bytes |-> bytes]

\* what the chat endpoint may answer: an error envelope, an error page, a
\* reply, an empty reply, a provider document passed on as it came, a text
\* that is not JSON, an event stream
ClientAnswers ==
    { Answer(500, PlainType, "json", Undef, Undef, <<"{\"error\":\"boom\"}">>),
      Answer(500, "text/html", "text", Undef, Undef, <<"<html>Bad Gateway</html>">>),
      Answer(200, JsonType, "json", Str(<<"y", "o">>), Undef, <<"{\"reply\":\"yo\"}">>),
      Answer(200, JsonType, "json", Str(<<>>), Undef, <<"{\"reply\":\"\"}">>),
      Answer(200, JsonType, "json", Undef, Str(<<"y", "o">>), <<"{\"candidates\":[...]}">>),
      Answer(200, PlainType, "text", Undef, Undef, <<"o", "k">>) }
    \cup {Answer(200, SseType, "sse", Undef, Undef, b) :
              b \in FramesOf(ClientFrames)
                    \cup {s \o DoneFrame : s \in FramesOf(ClientFrames)}}

\* String.prototype.split('\n')
RECURSIVE SplitLines(_)
SplitLines(s) ==
    LET hits == {i \in 1..Len(s) : s[i] = NL}
    IN  IF hits = {} THEN <<s>>
        ELSE LET i == CHOOSE h \in hits : \A g \in hits : h <= g
             IN  <<SubSeq(s, 1, i - 1)>> \o SplitLines(SubSeq(s, i + 1, Len(s)))

\* JSON.parse(jsonStr) and the read of choices[0].delta.content: the text, or
\* nothing when the parse throws or the path holds no text
DeltaContent(jsonStr) ==
    IF /\ Len(jsonStr) >= 2
       /\ jsonStr[1] = CanonOpen
       /\ jsonStr[Len(jsonStr)] = CanonClose
       /\ IsText(SubSeq(jsonStr, 2, Len(jsonStr) - 1))
    THEN SubSeq(jsonStr, 2, Len(jsonStr) - 1)
    ELSE <<>>

\* the for loop over the lines of one read: the text it adds and whether it
\* met the terminator, at which it stops.  reads tells whether the revision
\* reads the content of a frame for the selected model.
RECURSIVE ScanLines(_, _)
ScanLines(lines, reads) ==
    IF lines = <<>> THEN [text |-> <<>>, done |-> FALSE]
    ELSE IF ~StartsWith(Head(lines), Marker) THEN ScanLines(Tail(lines), reads)
    ELSE IF Substring(Head(lines), MarkerLen) = <<"[DONE]">>
    THEN [text |-> <<>>, done |-> TRUE]
    ELSE LET r == ScanLines(Tail(lines), reads)
         IN  [text |-> (IF reads THEN DeltaContent(Substring(Head(lines), MarkerLen))
                        ELSE <<>>) \o r.text,
              done |-> r.done]

\* one turn of the read loop on the bytes value: the buffer and the decoder
\* after it, the text added, and whether the terminator was met
ReadStep(revision, model, buf, pend, value) ==
    LET d == Decode(pend, value)
        all == IF revision = "part_001" THEN Split(buf \o d.chars)
               ELSE IF revision = "part_002" THEN SplitLines(buf \o d.chars)
               ELSE SplitLines(d.chars)
        keeps == revision \in {"part_001", "part_002"}
        lines == IF keeps THEN SubSeq(all, 1, Len(all) - 1) ELSE all
        r == ScanLines(lines,
                       revision # "part_002" \/ model \in {"chatgpt", "deepseek"})
    IN  [buffer |-> IF keeps THEN all[Len(all)] ELSE <<>>,
         pending |-> d.pending,
         text |-> r.text,
         done |-> r.done]

ClientInit ==
    /\ HandlerIdle
    /\ src = <<>>
    /\ pos = 0
    /\ buffer = <<>>
    /\ pending = <<>>
    /\ out = <<>>
    /\ ended = FALSE
    /\ cancelled = FALSE
    /\ peer = NoPeer
    /\ crev \in ClientRevs
    /\ conversationHistory = <<>>
    /\ controls = Enabled
    /\ requests = NoRequests
    /\ submit = NotSubmitting

\* the handler leaves its try / catch / finally; sub is its state at that
\* moment, hist the history it leaves.  Of its locals, the response and what
\* it accumulated stay on record.
Finish(threw, hist, outcome, sub) ==
    /\ conversationHistory' = hist
    /\ controls' = Finally(threw)
    /\ requests' = [requests EXCEPT !.inflight = @ - 1]
    /\ submit' = [NotSubmitting EXCEPT !.outcome = outcome,
                                       !.response = sub.response,
                                       !.accumulatedContent = sub.accumulatedContent,
                                       !.mark = sub.mark]
    /\ UNCHANGED crev
    /\ UNCHANGED hvars
    /\ UNCHANGED nvars

\* the handler moves on to its next await
Await(sub) ==
    /\ submit' = sub
    /\ UNCHANGED <<crev, conversationHistory, controls, requests>>
    /\ UNCHANGED hvars
    /\ UNCHANGED nvars

\* the form is submitted (the browser does not submit a form whose submit
\* button is disabled): the handler runs up to its call of fetch()
ClientSubmit ==
    /\ ~controls.sendButton
    /\ requests.count < MaxSubmits
    /\ \E userMessage \in UserMessages, attached \in BOOLEAN, model \in ClientModels :
          /\ userMessage # <<>> \/ attached
          /\ LET hist == Append(conversationHistory, UserTurn(crev, userMessage))
             IN  /\ conversationHistory' = hist
                 /\ controls' = Disabled
                 /\ requests' = [count |-> requests.count + 1,
                                 inflight |-> requests.inflight + 1,
                                 messages |-> IF crev = "part_002" THEN SliceLast(hist)
                                              ELSE hist]
                 /\ submit' = [NotSubmitting EXCEPT !.pc = "fetch",
                                                    !.selectedModel = model,
                                                    !.mark = Len(hist)]
    /\ UNCHANGED crev
    /\ UNCHANGED hvars
    /\ UNCHANGED nvars

\* fetch() rejects: catch, finally
ClientFetchRejects ==
    /\ submit.pc = "fetch"
    /\ Finish(TRUE, conversationHistory, "network error", submit)

\* fetch() resolves: the handler tests response.ok and the Content-Type and
\* awaits the body in the way its revision chooses
ClientFetchResolves ==
    /\ submit.pc = "fetch"
    /\ \E a \in ClientAnswers :
          LET next == IF ~Ok(a.status)
                      THEN IF crev = "part_002" THEN "errtext" ELSE "errjson"
                      ELSE IF crev = "part_001" THEN "read"
                      ELSE IF a.ctype = SseType THEN "read"
                      ELSE IF crev = "part_000" /\ a.ctype # JsonType THEN "text"
                      ELSE "json"
          IN  Await([submit EXCEPT !.response = a, !.pc = next])

\* json() of an error response settles: the handler throws, except that the
\* revisions with a clone go on to text() when the body is not JSON
ClientErrJsonSettles ==
    /\ submit.pc = "errjson"
    /\ IF crev \in {"script", "part_000"} /\ submit.response.fmt # "json"
       THEN Await([submit EXCEPT !.pc = "errtext"])
       ELSE Finish(TRUE, conversationHistory, "http error", submit)

\* text() of an error response settles: the handler throws
ClientErrTextSettles ==
    /\ submit.pc = "errtext"
    /\ Finish(TRUE, conversationHistory, "http error", submit)

\* json() of a 2xx response settles
ClientJsonSettles ==
    /\ submit.pc = "json"
    /\ LET a == submit.response
           said(text) == Append(conversationHistory, AssistantTurn(text))
       IN  IF a.fmt # "json"
           THEN Finish(TRUE, conversationHistory, "bad body", submit)
           ELSE IF crev = "part_002"
           THEN IF submit.selectedModel = "gemini"
                THEN IF a.gemini.t = "undefined"
                     THEN Finish(TRUE, conversationHistory, "bad body", submit)
                     ELSE Finish(FALSE, said(a.gemini.s), "reply", submit)
                ELSE Finish(FALSE, said(<<>>), "reply", submit)
           ELSE IF Truthy(a.reply)
           THEN Finish(FALSE, said(a.reply.s), "reply", submit)
           ELSE Finish(FALSE, conversationHistory, "empty reply", submit)

\* text() of a 2xx response of unknown type settles
ClientTextSettles ==
    /\ submit.pc = "text"
    /\ Finish(FALSE, conversationHistory, "unknown format", submit)

\* reader.read() resolves with a value
ClientRead ==
    /\ submit.pc = "read"
    /\ \E k \in 1..(Len(submit.response.bytes) - submit.pos) :
          LET value == SubSeq(submit.response.bytes, submit.pos + 1, submit.pos + k)
              r == ReadStep(crev, submit.selectedModel, submit.buffer, submit.pending, value)
              sub == [submit EXCEPT !.pos = @ + k,
                                    !.buffer = r.buffer,
                                    !.pending = r.pending,
                                    !.accumulatedContent = @ \o r.text]
          IN  IF crev = "part_002" /\ r.done
              THEN Finish(FALSE,
                          Append(conversationHistory,
                                 AssistantTurn(sub.accumulatedContent)),
                          "streamed", sub)
              ELSE Await(sub)

\* reader.read() resolves with done
ClientReadDone ==
    /\ submit.pc = "read"
    /\ submit.pos = Len(submit.response.bytes)
    /\ Finish(FALSE,
              IF crev # "part_002" /\ submit.accumulatedContent # <<>>
              THEN Append(conversationHistory, AssistantTurn(submit.accumulatedContent))
              ELSE conversationHistory,
              "streamed", submit)

\* reader.read() rejects: only part_000 catches it inside
\* handleStreamedResponse, whose finally keeps what was accumulated
ClientReadFails ==
    /\ submit.pc = "read"
    /\ IF crev = "part_000"
       THEN Finish(FALSE,
                   IF submit.accumulatedContent # <<>>
                   THEN Append(conversationHistory,
                               AssistantTurn(submit.accumulatedContent))
                   ELSE conversationHistory,
                   "read error", submit)
       ELSE Finish(TRUE, conversationHistory, "read error", submit)

ClientNext ==
    \/ ClientSubmit
    \/ ClientFetchRejects
    \/ ClientFetchResolves
    \/ ClientErrJsonSettles
    \/ ClientErrTextSettles
    \/ ClientJsonSettles
    \/ ClientTextSettles
    \/ ClientRead
    \/ ClientReadDone
    \/ ClientReadFails

ClientSpec == ClientInit /\ [][ClientNext]_vars

\* --------------------------------------------------- the client's claims
\* the contents of the frames that stand before the terminator
RECURSIVE ContentBeforeDone(_)
ContentBeforeDone(lines) ==
    IF lines = <<>> \/ Head(lines) = DoneLine THEN <<>>
    ELSE (IF StartsWith(Head(lines), Marker)
          THEN DeltaContent(Substring(Head(lines), MarkerLen)) ELSE <<>>)
         \o ContentBeforeDone(Tail(lines))

\* the handler is through with an event stream that ended by the terminator
\* or by end-of-body
StreamHandled == submit.outcome = "streamed" /\ submit.response.fmt = "sse"

\* C36: when the client is through with a streamed response, the text it
\* accumulated is the concatenation, in order, of the delta contents of the
\* frames the server sent before the terminator, however the body was cut
\* into reads.
C36_AccumulatedIsSent ==
    StreamHandled =>
        submit.accumulatedContent = ContentBeforeDone(CompleteLines(submit.response.bytes))

\* C37: after a streamed response ended, by the terminator or by end-of-body,
\* with a text accumulated, the history holds one turn more than when the
\* request was sent: an assistant turn with that text.
C37_OneAssistantTurn ==
    (StreamHandled /\ submit.accumulatedContent # <<>>) =>
        /\ Len(conversationHistory) = submit.mark + 1
        /\ conversationHistory[Len(conversationHistory)]
               = AssistantTurn(submit.accumulatedContent)

\* user, assistant, user, ...
Alternates(messages) ==
    \A i \in 1..Len(messages) :
        messages[i].role = IF i % 2 = 1 THEN "user" ELSE "assistant"

\* C38: the messages of every chat request the client sends alternate user
\* and assistant turns, starting with a user turn.
C38_HistoryAlternates == Alternates(requests.messages)

\* C39: while the submit handler runs, from its acceptance of the submission
\* to the end of its finally block, the three controls are disabled and one
\* chat request is in flight; when it does not run, after whatever outcome,
\* the three controls are enabled and no request is in flight.
C39_ControlsFollowRequest ==
    /\ requests.inflight <= 1
    /\ submit.pc # "idle" => (controls = Disabled /\ requests.inflight = 1)
    /\ submit.pc = "idle" => (controls = Enabled /\ requests.inflight = 0)

\* a second submission ended in a stream read error, after which the form
\* is usable again
C39_Witness_EnabledAfterReadError ==
    /\ requests.count = 2
    /\ submit.pc = "idle"
    /\ submit.outcome = "read error"
    /\ crev = "script"
    /\ controls = Enabled

====
